---- MODULE Spec2Model ----
(***************************************************************************)
(* Model of the ragsno document pipeline:                                  *)
(*   - the ingestion endpoint (POST of the upload route),                  *)
(*   - the document endpoint (GET by id, GET list, DELETE),                *)
(*   - the query endpoint (POST of the query route).                       *)
(* The object store, the chunk table, the embedding service, the text      *)
(* parsers and the generation service are external: each call to one of    *)
(* them is one step that either succeeds or fails.                         *)
(***************************************************************************)
EXTENDS Integers, Sequences, FiniteSets, TLC

\* ---------------------------------------------------------------- bounds
\* Number of concurrent ingestion requests (each mints its own documentId).
MaxDocs == 2
\* Number of ingestion requests served while DELETE requests are served.
DelDocs == 1
\* Largest number of chunks the splitter returns in the concurrent models.
MaxChunks == 2
\* Largest number of chunks in the single-document read-back model.
BigChunks == 11

\* ------------------------------------------------------ program constants
MATCH_COUNT == 5

\* ---------------------------------------------------------------- inputs
DocIds == 1..MaxDocs
\* An id no ingestion ever minted (a DELETE or GET of an unknown document).
NoSuchId == 0
\* File name extensions; "bin" stands for every extension other than the
\* three the extractor knows.
Exts == {"pdf", "docx", "txt", "bin"}
Whitespace == {" ", "\n"}
\* Sample file contents, as sequences of characters.
Texts == { <<>>, <<" ">>, <<"\n", " ">>, <<" ", "a", " ">> }
\* No file path.
NoPath == <<>>

VARIABLES
    ing,      \* ing[d]: the ingestion request that minted documentId d
    calls,    \* calls[d]: the calls request d has made, <<call, chunk, outcome>>
    files,    \* object store bucket 'documents': the set of stored keys
    rows,     \* table 'documents': the set of chunk rows
    del,      \* the DELETE request being served (or the last one served)
    qry,      \* the query request being served (or the last one served)
    qcalls,   \* the calls the query request has made, <<call, outcome>>
    getResp,  \* the response of the last GET of the document endpoint
    dec,      \* the PDF text run being decoded during a PDF extraction
    modal,    \* PDFViewerModal: its props and its state
    net       \* the modal's fetches in flight, and what its current opening did

vars == <<ing, calls, files, rows, del, qry, qcalls, getResp, dec, modal, net>>

\* ------------------------------------------------------- pure functions
\* String.prototype.trim on a sequence of characters.
RECURSIVE TrimLeft(_)
TrimLeft(s) ==
    IF s = <<>> THEN s
    ELSE IF Head(s) \in Whitespace THEN TrimLeft(Tail(s)) ELSE s

RECURSIVE TrimRight(_)
TrimRight(s) ==
    IF s = <<>> THEN s
    ELSE IF s[Len(s)] \in Whitespace THEN TrimRight(SubSeq(s, 1, Len(s) - 1)) ELSE s

Trim(s) == TrimRight(TrimLeft(s))

\* filePath = `${documentId}.${ext}`
FilePath(d, ext) == <<d, ext>>

\* extractTextFromFile: the text it resolves to when the parser succeeds.
\* pdf: every non-empty run is appended followed by ' ', the result trimmed.
ExtractedText(ext, content) ==
    IF ext = "pdf"
    THEN Trim(IF content = <<>> THEN <<>> ELSE content \o <<" ">>)
    ELSE content

SupportedExts == {"pdf", "docx", "txt"}

\* if (!text || text.trim().length === 0)
IsEmptyContentNoTrim(text) == text = <<>>
IsEmptyContent(text) == text = <<>> \/ Len(Trim(text)) = 0

\* chunks[i] of document d (the splitter's output is kept abstract).
Chunk(d, i) == <<d, i>>

\* ------------------------------------------------------------ ingestion
IdleIng ==
    [pc |-> "idle", ext |-> "bin", textLength |-> 0,
     chunks |-> 0, i |-> 0, status |-> 0, success |-> FALSE, error |-> "none"]

RowsOf(id) == { r \in rows : r.document_id = id }

\* NextResponse.json({ error }, { status })
FailedWithoutResponse(r, st, err) == [r EXCEPT !.status = st, !.error = err]
Failed(r, st, err) == [r EXCEPT !.pc = "done", !.status = st, !.error = err]

\* The request after the upload returned: if (storageError) return ... 500
AfterUploadIgnoringError(r, ext, storageError) ==
    [r EXCEPT !.pc = "extract", !.ext = ext]
AfterUpload(r, ext, storageError) ==
    IF storageError
    THEN Failed([r EXCEPT !.ext = ext], 500, "StorageUploadError")
    ELSE [r EXCEPT !.pc = "extract", !.ext = ext]

\* POST: formData, the 'No file uploaded' check, documentId and filePath, and
\* supabaseStorage.storage.from('documents').upload(filePath, ...)
Post(d) ==
    /\ ing[d].pc = "idle"
    /\ \A e \in DocIds : e < d => ing[e].pc # "idle"
    /\ \/ /\ ing' = [ing EXCEPT ![d] = Failed(@, 400, "NoFile")]
          /\ UNCHANGED <<calls, files>>
       \/ \E ext \in Exts, storageError \in BOOLEAN :
            /\ calls' = [calls EXCEPT ![d] =
                   Append(@, <<"upload", 0, IF storageError THEN "error" ELSE "ok">>)]
            /\ files' = IF storageError THEN files
                        ELSE files \cup {FilePath(d, ext)}
            /\ ing' = [ing EXCEPT ![d] = AfterUpload(@, ext, storageError)]
    /\ UNCHANGED <<rows, del, qry, qcalls, getResp>>

\* What extractTextFromFile did: "unsupported" and "error" are its throws,
\* "empty" and "blank" a text of length 0 or of whitespace only, "text" any other.
ExtractOutcome(ext, parsed, text) ==
    IF ext \notin SupportedExts THEN "unsupported"
    ELSE IF ~parsed THEN "error"
    ELSE IF text = <<>> THEN "empty"
    ELSE IF \A k \in 1..Len(text) : text[k] \in Whitespace THEN "blank"
    ELSE "text"

\* The bucket after the catch block answered a throw: nothing is removed.
FilesAfterCatchRollingBack(d) == files \ {FilePath(d, ing[d].ext)}
FilesAfterCatch(d) == files

\* extractTextFromFile, the empty-content check and splitText.
\* counts: the chunk counts the splitter may return for a non-blank text.
\* The docx and pdf parsers may reject the buffer; reading a txt cannot fail.
ExtractAndSplit(d, counts) ==
    /\ ing[d].pc = "extract"
    /\ UNCHANGED <<rows, del, qry, qcalls, getResp>>
    /\ \E content \in Texts, parsed \in BOOLEAN :
       LET ext == ing[d].ext
           text == ExtractedText(ext, content)
           extract == <<"extract", 0, ExtractOutcome(ext, parsed, text)>>
       IN  /\ (ext \in {"txt", "bin"} => parsed)
           /\ \/ /\ ext \notin SupportedExts
                 /\ ing' = [ing EXCEPT ![d] = Failed(@, 500, "UnsupportedFormat")]
                 /\ calls' = [calls EXCEPT ![d] = Append(@, extract)]
                 /\ files' = FilesAfterCatch(d)
              \/ /\ ext \in SupportedExts /\ ~parsed
                 /\ ing' = [ing EXCEPT ![d] = Failed(@, 500, "ExtractionFailure")]
                 /\ calls' = [calls EXCEPT ![d] = Append(@, extract)]
                 /\ files' = FilesAfterCatch(d)
              \/ /\ ext \in SupportedExts /\ parsed
                 /\ IsEmptyContent(text)
                 /\ ing' = [ing EXCEPT ![d] = Failed(@, 400, "EmptyContent")]
                 /\ calls' = [calls EXCEPT ![d] = Append(@, extract)]
                 /\ UNCHANGED files
              \/ /\ ext \in SupportedExts /\ parsed
                 /\ ~IsEmptyContent(text)
                 /\ \E n \in counts :
                       ing' = [ing EXCEPT ![d].pc = "embed", ![d].chunks = n,
                                          ![d].i = 0, ![d].textLength = Len(text)]
                 /\ calls' = [calls EXCEPT ![d] = @ \o <<extract, <<"split", 0, "ok">> >>]
                 /\ UNCHANGED files

\* The request after embeddings.create returned or threw: a throw leaves the
\* loop for the catch block, a result is followed by the insert of the chunk.
AfterEmbedIgnoringError(r, error) == [r EXCEPT !.pc = "insert"]
AfterEmbed(r, error) ==
    IF error THEN Failed(r, 500, "EmbeddingServiceError")
    ELSE [r EXCEPT !.pc = "insert"]

\* openai.embeddings.create({ input: chunk }); a failure throws.
Embed(d) ==
    /\ ing[d].pc = "embed"
    /\ \E error \in BOOLEAN :
         /\ calls' = [calls EXCEPT ![d] =
                Append(@, <<"embed", ing[d].i, IF error THEN "error" ELSE "ok">>)]
         /\ ing' = [ing EXCEPT ![d] = AfterEmbed(@, error)]
         /\ files' = IF error THEN FilesAfterCatch(d) ELSE files
    /\ UNCHANGED <<rows, del, qry, qcalls, getResp>>

\* const uploadDate = new Date().toISOString(): read once per request, before
\* the upload. Requests are numbered in arrival order, and so are their dates.
UploadDate(d) == d

\* The row the loop inserts for chunk i.
ChunkRowCountingSoFar(d) ==
    [document_id |-> d, chunk_index |-> ing[d].i, total_chunks |-> ing[d].i + 1,
     file_path |-> FilePath(d, ing[d].ext), upload_date |-> UploadDate(d),
     content |-> Chunk(d, ing[d].i)]
ChunkRow(d) ==
    [document_id |-> d, chunk_index |-> ing[d].i, total_chunks |-> ing[d].chunks,
     file_path |-> FilePath(d, ing[d].ext), upload_date |-> UploadDate(d),
     content |-> Chunk(d, ing[d].i)]

\* The request after the insert returned: if (error) return ... 500; i++;
\* after the last chunk the success response.
NextChunkStoppingEarly(r) ==
    IF r.i + 2 < r.chunks
    THEN [r EXCEPT !.pc = "embed", !.i = @ + 1]
    ELSE [r EXCEPT !.pc = "done", !.i = @ + 1, !.status = 200, !.success = TRUE]
NextChunk(r) ==
    IF r.i + 1 < r.chunks
    THEN [r EXCEPT !.pc = "embed", !.i = @ + 1]
    ELSE [r EXCEPT !.pc = "done", !.i = @ + 1, !.status = 200, !.success = TRUE]

AfterInsertIgnoringError(r, error) == NextChunk(r)
AfterInsert(r, error) ==
    IF error THEN Failed(r, 500, "StorageWriteError") ELSE NextChunk(r)

\* supabase.from('documents').insert(...)
Insert(d) ==
    /\ ing[d].pc = "insert"
    /\ \E error \in BOOLEAN :
         /\ calls' = [calls EXCEPT ![d] =
                Append(@, <<"insert", ing[d].i, IF error THEN "error" ELSE "ok">>)]
         /\ rows' = IF error THEN rows ELSE rows \cup {ChunkRow(d)}
         /\ ing' = [ing EXCEPT ![d] = AfterInsert(@, error)]
    /\ UNCHANGED <<files, del, qry, qcalls, getResp>>

\* ------------------------------------------------------ document endpoint
\* Decimal digits of a natural number: metadata->>chunk_index is text.
RECURSIVE ToText(_)
ToText(n) == IF n < 10 THEN <<n>> ELSE Append(ToText(n \div 10), n % 10)

\* Text comparison a < b (digit strings, character by character).
RECURSIVE TextLess(_, _)
TextLess(a, b) ==
    IF b = <<>> THEN FALSE
    ELSE IF a = <<>> THEN TRUE
    ELSE IF Head(a) # Head(b) THEN Head(a) < Head(b)
    ELSE TextLess(Tail(a), Tail(b))

\* .order('metadata->>chunk_index', { ascending: true })
OrderKeyLess(r1, r2) == TextLess(ToText(r1.chunk_index), ToText(r2.chunk_index))

\* The rows S, ordered by the order key.
RECURSIVE Ordered(_)
Ordered(S) ==
    IF S = {} THEN <<>>
    ELSE LET r == CHOOSE r \in S : \A q \in S \ {r} : ~OrderKeyLess(q, r)
         IN  <<r>> \o Ordered(S \ {r})

NoResp == [kind |-> "none", status |-> 0, id |-> NoSuchId, total_chunks |-> 0,
           fullText |-> <<>>, documents |-> {}]

\* GET ?id=: select content, metadata where document_id = id, ordered.
GetByIdResponse(id, selectOk) ==
    LET chunks == Ordered(RowsOf(id))
    IN  IF ~selectOk \/ Len(chunks) = 0
        THEN [NoResp EXCEPT !.kind = "doc", !.status = 404, !.id = id]
        ELSE [NoResp EXCEPT !.kind = "doc", !.status = 200, !.id = id,
                            !.total_chunks = Len(chunks),
                            !.fullText = [k \in 1..Len(chunks) |-> chunks[k].content]]

\* GET without id: scan all rows, keep the first row's metadata per document_id.
Summary(r) == [id |-> r.document_id, total_chunks |-> r.total_chunks,
               file_path |-> r.file_path]

\* A metadata without document_id (or with a falsy one).
NoDocumentId == -2

\* m?.document_id
HasDocumentIdAlways(r) == TRUE
HasDocumentId(r) == r.document_id # NoDocumentId

\* The scan order of the table is not fixed: any row of an id may come first.
ListResponses(selectOk) ==
    IF ~selectOk THEN { [NoResp EXCEPT !.kind = "list", !.status = 500] }
    ELSE LET ids == { r.document_id : r \in { x \in rows : HasDocumentId(x) } }
             firsts == { f \in [ids -> rows] : \A id \in ids : f[id].document_id = id }
         IN  { [NoResp EXCEPT !.kind = "list", !.status = 200,
                              !.documents = { Summary(f[id]) : id \in ids }]
               : f \in firsts }

ListedIds(resp) == { s.id : s \in resp.documents }

\* Ids a client can name: those minted so far, and an unknown one.
KnownIds == { d \in DocIds : ing[d].pc # "idle" } \cup {NoSuchId}

GetDocument ==
    /\ \E id \in KnownIds, ok \in BOOLEAN : getResp' = GetByIdResponse(id, ok)
    /\ UNCHANGED <<ing, calls, files, rows, del, qry, qcalls, dec, modal, net>>

GetList ==
    /\ \E ok \in BOOLEAN : getResp' \in ListResponses(ok)
    /\ UNCHANGED <<ing, calls, files, rows, del, qry, qcalls, dec, modal, net>>

\* GET ?id=&file=true: select metadata of one row of the id (404 without one),
\* download meta.file_path from the bucket (404 when that fails).
GetFileResponse(id, selectOk, downloadOk) ==
    IF ~selectOk \/ RowsOf(id) = {}
    THEN [NoResp EXCEPT !.kind = "file", !.status = 404, !.id = id]
    ELSE LET filePath == (CHOOSE r \in RowsOf(id) : TRUE).file_path
         IN  IF downloadOk /\ filePath \in files
             THEN [NoResp EXCEPT !.kind = "file", !.status = 200, !.id = id]
             ELSE [NoResp EXCEPT !.kind = "file", !.status = 404, !.id = id]

GetFile ==
    /\ \E id \in KnownIds, selectOk \in BOOLEAN, downloadOk \in BOOLEAN :
          getResp' = GetFileResponse(id, selectOk, downloadOk)
    /\ UNCHANGED <<ing, calls, files, rows, del, qry, qcalls, dec, modal, net>>

\* ---------------------------------------------------------------- DELETE
\* A request without the id parameter.
NoId == -1

IdleDel == [pc |-> "idle", id |-> NoSuchId, filePath |-> NoPath, status |-> 0,
            fileDeleted |-> FALSE, quiet |-> TRUE, calls |-> <<>>]

\* DELETE: read the id parameter; 'Document ID required' when it is missing.
\* quiet records that no ingestion of the id is in flight as the request starts.
DeleteRequest ==
    /\ del.pc \in {"idle", "done"}
    /\ \E id \in KnownIds \cup {NoId} :
         IF id = NoId
         THEN del' = [IdleDel EXCEPT !.pc = "done", !.id = id, !.status = 400]
         ELSE del' = [IdleDel EXCEPT !.pc = "select", !.id = id,
                         !.quiet = (id = NoSuchId \/ ing[id].pc = "done")]
    /\ UNCHANGED <<ing, calls, files, rows, qry, qcalls, getResp>>

\* select('metadata').eq(document_id, id).limit(1); the error is not read, so
\* a failed select leaves docs empty. filePath = docs?.[0]?.metadata?.file_path
DeleteSelect ==
    /\ del.pc = "select"
    /\ \E ok \in BOOLEAN :
         LET found == ok /\ RowsOf(del.id) # {}
             filePath == IF found THEN (CHOOSE r \in RowsOf(del.id) : TRUE).file_path
                         ELSE NoPath
             outcome == IF ~ok THEN "error" ELSE IF found THEN "found" ELSE "none"
         IN  del' = [del EXCEPT !.filePath = filePath,
                                !.pc = IF filePath # NoPath THEN "remove" ELSE "rows",
                                !.calls = Append(@, <<"select", outcome>>)]
    /\ UNCHANGED <<ing, calls, files, rows, qry, qcalls, getResp>>

\* storage.from('documents').remove([filePath]); its result is not read.
DeleteRemove ==
    /\ del.pc = "remove"
    /\ \/ /\ files' = files \ {del.filePath}
          /\ del' = [del EXCEPT !.pc = "rows", !.calls = Append(@, <<"remove", "ok">>)]
       \/ /\ UNCHANGED files
          /\ del' = [del EXCEPT !.pc = "rows", !.calls = Append(@, <<"remove", "error">>)]
    /\ UNCHANGED <<ing, calls, rows, qry, qcalls, getResp>>

\* The rows .delete().eq('metadata->>document_id', id) removes.
MatchedRowsLimitOne(id) ==
    IF RowsOf(id) = {} THEN {} ELSE {CHOOSE r \in RowsOf(id) : TRUE}
MatchedRows(id) == RowsOf(id)

\* The response after the delete returned: if (error) ... 500, else success.
AfterDelete(r, error) ==
    IF error THEN [r EXCEPT !.pc = "done", !.status = 500]
    ELSE [r EXCEPT !.pc = "done", !.status = 200,
                   !.fileDeleted = (r.filePath # NoPath)]

\* from('documents').delete().eq(document_id, id), and the response.
DeleteRows ==
    /\ del.pc = "rows"
    /\ \E error \in BOOLEAN :
         LET matched == MatchedRows(del.id)
             r == [del EXCEPT !.calls =
                      Append(@, <<"delete", IF error THEN "error" ELSE "ok">>)]
         IN  /\ rows' = IF error THEN rows ELSE rows \ matched
             /\ del' = AfterDelete(r, error)
    /\ UNCHANGED <<ing, calls, files, qry, qcalls, getResp>>

\* ----------------------------------------------------------------- query
\* Sample queries: empty, whitespace-only, and a question.
Queries == { <<>>, <<" ">>, <<"q">> }

IdleQry == [pc |-> "idle", query |-> <<>>, match_count |-> 0, results |-> <<>>,
            context |-> <<>>, status |-> 0, error |-> "none", answered |-> FALSE,
            sources |-> <<>>]

\* POST: const { query } = await req.json(); no check of the query follows.
QueryPost ==
    /\ qry.pc \in {"idle", "done"}
    /\ \E q \in Queries : qry' = [IdleQry EXCEPT !.pc = "embed", !.query = q]
    /\ qcalls' = <<>>
    /\ UNCHANGED <<ing, calls, files, rows, del, getResp>>

QueryFail(err) ==
    qry' = [qry EXCEPT !.pc = "done", !.status = 500, !.error = err]

\* The handler after embeddings.create returned or threw: a throw is answered
\* by the catch block, a result is passed to the search.
AfterQueryEmbedIgnoringError(q, error) == [q EXCEPT !.pc = "search"]
AfterQueryEmbed(q, error) ==
    IF error
    THEN [q EXCEPT !.pc = "done", !.status = 500, !.error = "EmbeddingServiceError"]
    ELSE [q EXCEPT !.pc = "search"]

\* openai.embeddings.create({ input: query })
QueryEmbed ==
    /\ qry.pc = "embed"
    /\ \E error \in BOOLEAN :
         /\ qry' = AfterQueryEmbed(qry, error)
         /\ qcalls' = Append(qcalls, <<"embed", IF error THEN "error" ELSE "ok">>)
    /\ UNCHANGED <<ing, calls, files, rows, del, getResp>>

\* The ranked lists match_documents may return: distinct stored rows, at
\* most match_count of them.
Injective(f) == \A a, b \in DOMAIN f : f[a] = f[b] => a = b

MatchDocuments(k) ==
    LET lens == { m \in 0..Cardinality(rows) : m <= k }
    IN  { f \in UNION { [1..m -> rows] : m \in lens } : Injective(f) }

\* context = results?.map(r => r.content).join('\n---\n') || ''
Context(results) == [j \in 1..Len(results) |-> results[j].content]

\* The handler's state after the search returned results without an error.
AfterSearchRejectingEmpty(q, results) ==
    IF results = <<>>
    THEN [q EXCEPT !.pc = "done", !.status = 404, !.error = "NotFound"]
    ELSE [q EXCEPT !.pc = "generate", !.results = results,
                   !.context = Context(results)]
AfterSearch(q, results) ==
    [q EXCEPT !.pc = "generate", !.results = results, !.context = Context(results)]

\* The match_count argument the rpc is called with.
Searching(q) == [q EXCEPT !.match_count = MATCH_COUNT]

\* supabase.rpc('match_documents', { query_embedding, match_count })
QuerySearch ==
    /\ qry.pc = "search"
    /\ \/ /\ \E results \in MatchDocuments(MATCH_COUNT) :
                qry' = AfterSearch(Searching(qry), results)
          /\ qcalls' = Append(qcalls,
                 <<"search", IF rows = {} THEN "ok, store empty" ELSE "ok">>)
       \/ /\ qry' = [Searching(qry) EXCEPT !.pc = "done", !.status = 500,
                                           !.error = "SearchError"]
          /\ qcalls' = Append(qcalls, <<"search", "error">>)
    /\ UNCHANGED <<ing, calls, files, rows, del, getResp>>

\* openai.chat.completions.create(...) and the response { answer, sources }.
QueryGenerate ==
    /\ qry.pc = "generate"
    /\ \/ /\ qry' = [qry EXCEPT !.pc = "done", !.status = 200, !.answered = TRUE,
                                !.sources = qry.results]
          /\ qcalls' = Append(qcalls, <<"generate", "ok">>)
       \/ /\ QueryFail("GenerationServiceError")
          /\ qcalls' = Append(qcalls, <<"generate", "error">>)
    /\ UNCHANGED <<ing, calls, files, rows, del, getResp>>

\* ------------------------------------------------------ percent-decoding
\* Text runs of a parsed PDF (r.T) are sequences of characters.
MaxRunLen == 6

\* '%', hexadecimal digits that form ASCII bytes (2x, 5x), lead bytes of a
\* two-byte UTF-8 sequence (Cx) and continuation bytes (Ax).
Chars == {"%", "2", "5", "A", "C"}
Hex == {"2", "5", "A", "C"}

Runs == UNION { [1..n -> Chars] : n \in 0..MaxRunLen }

\* The character of the ASCII byte written %hl (h is "2" or "5").
Ascii(h, l) ==
    CASE <<h, l>> = <<"2", "2">> -> "\""
      [] <<h, l>> = <<"2", "5">> -> "%"
      [] <<h, l>> = <<"2", "A">> -> "*"
      [] <<h, l>> = <<"2", "C">> -> ","
      [] <<h, l>> = <<"5", "2">> -> "R"
      [] <<h, l>> = <<"5", "5">> -> "U"
      [] <<h, l>> = <<"5", "A">> -> "Z"
      [] <<h, l>> = <<"5", "C">> -> "\\"

\* The character whose UTF-8 encoding is the two bytes Cl Am.
Utf8(l, m) == "<C" \o l \o "A" \o m \o ">"

Thrown == [thrown |-> TRUE, value |-> <<>>]

\* decodeURIComponent: each %XX is a byte of a UTF-8 sequence; a '%' not
\* followed by two hexadecimal digits, a continuation byte where a sequence
\* should start, or a lead byte without its continuation throw URIError.
RECURSIVE DecodeURIComponent(_)
DecodeURIComponent(s) ==
    IF s = <<>> THEN [thrown |-> FALSE, value |-> <<>>]
    ELSE IF Head(s) # "%"
    THEN LET rest == DecodeURIComponent(Tail(s))
         IN  IF rest.thrown THEN Thrown
             ELSE [thrown |-> FALSE, value |-> <<Head(s)>> \o rest.value]
    ELSE IF Len(s) < 3 \/ s[2] \notin Hex \/ s[3] \notin Hex THEN Thrown
    ELSE IF s[2] \in {"2", "5"}
    THEN LET rest == DecodeURIComponent(SubSeq(s, 4, Len(s)))
         IN  IF rest.thrown THEN Thrown
             ELSE [thrown |-> FALSE, value |-> <<Ascii(s[2], s[3])>> \o rest.value]
    ELSE IF s[2] = "A" THEN Thrown
    ELSE IF Len(s) < 6 \/ s[4] # "%" \/ s[5] # "A" \/ s[6] \notin Hex THEN Thrown
    ELSE LET rest == DecodeURIComponent(SubSeq(s, 7, Len(s)))
         IN  IF rest.thrown THEN Thrown
             ELSE [thrown |-> FALSE, value |-> <<Utf8(s[3], s[6])>> \o rest.value]

\* str.replace(/%/g, '%25')
RECURSIVE EscapePercentFirstOnly(_)
EscapePercentFirstOnly(s) ==
    IF s = <<>> THEN <<>>
    ELSE IF Head(s) = "%" THEN <<"%", "2", "5">> \o Tail(s)
    ELSE <<Head(s)>> \o EscapePercentFirstOnly(Tail(s))
RECURSIVE EscapePercent(_)
EscapePercent(s) ==
    IF s = <<>> THEN <<>>
    ELSE IF Head(s) = "%" THEN <<"%", "2", "5">> \o EscapePercent(Tail(s))
    ELSE <<Head(s)>> \o EscapePercent(Tail(s))

\* safeDecodeURIComponent: try the decode; catch: try the decode of the
\* escaped string; catch: return str. tier tells which return was taken.
safeDecodeURIComponent(str) ==
    LET first == DecodeURIComponent(str)
        second == DecodeURIComponent(EscapePercent(str))
    IN  IF ~first.thrown THEN [thrown |-> FALSE, value |-> first.value, tier |-> 1]
        ELSE IF ~second.thrown
        THEN [thrown |-> FALSE, value |-> second.value, tier |-> 2]
        ELSE [thrown |-> FALSE, value |-> str, tier |-> 3]

IdleDec == [pc |-> "idle", run |-> <<>>, thrown |-> FALSE, value |-> <<>>,
            tier |-> 0, fullText |-> <<>>, rejected |-> FALSE]

\* pdfParser_dataReady for a text run r.T (empty runs are skipped):
\* fullText += safeDecodeURIComponent(r.T) + ' '; a throw rejects the
\* extraction ('Error extracting text').
DecodeRun ==
    /\ dec.pc = "run"
    /\ dec.run # <<>>
    /\ LET r == safeDecodeURIComponent(dec.run)
       IN  dec' = [dec EXCEPT !.pc = "done", !.thrown = r.thrown, !.value = r.value,
                              !.tier = r.tier, !.rejected = r.thrown,
                              !.fullText = IF r.thrown THEN @
                                           ELSE @ \o r.value \o <<" ">>]
    /\ UNCHANGED <<ing, calls, files, rows, del, qry, qcalls, getResp, modal, net>>

\* ---------------------------------------------------------- viewer modal
\* The documents the parent may pass (fileUrl and documentId of document v),
\* and the preview fetches that may be in flight for one fileUrl.
ViewDocs == 2
MaxPreviews == 2

\* null and '': no error, no text. A shown error or text is named by the
\* document whose fetch produced it.
Nothing == 0

\* The component as mounted, closed: the useState defaults.
ClosedModal ==
    [isOpen |-> FALSE, doc |-> 1, hasId |-> TRUE, isPDF |-> TRUE,
     error |-> Nothing, loading |-> TRUE, activeTab |-> "preview",
     text |-> Nothing, textLoading |-> FALSE, textError |-> Nothing]

\* previews[v]: fetches of fileUrl v in flight; textFetch: the document whose
\* text fetch is in flight. Since the state was last reset on open: issued
\* counts the text fetches issued, switched tells that the fallback button
\* was taken, previewFailed and textFailed that such a fetch failed,
\* refetched that a text fetch was issued after one had failed.
IdleNet ==
    [previews |-> [v \in 1..ViewDocs |-> 0], textFetch |-> Nothing,
     issued |-> 0, switched |-> FALSE, previewFailed |-> FALSE,
     textFailed |-> FALSE, refetched |-> FALSE]

\* The condition of the second effect.
WantsText(m) ==
    /\ m.isOpen
    /\ m.hasId
    /\ m.activeTab = "content"
    /\ m.text = Nothing
    /\ ~m.textLoading
    /\ m.textError = Nothing

\* The second effect on a render whose dependencies changed: fetchDocumentText
\* sets textLoading, clears textError and sends the request.
TextEffect(s) ==
    IF WantsText(s.m)
    THEN [m |-> [s.m EXCEPT !.textLoading = TRUE, !.textError = Nothing],
          n |-> [s.n EXCEPT !.textFetch = s.m.doc, !.issued = @ + 1,
                            !.refetched = @ \/ s.n.textFailed]]
    ELSE s

\* The first effect with isOpen: the state resets (textLoading is not among them).
ResetOnOpen(m) ==
    [m EXCEPT !.error = Nothing, !.loading = TRUE,
              !.activeTab = IF m.isPDF THEN "preview" ELSE "content",
              !.text = Nothing, !.textError = Nothing]

\* A render with new props. The effects whose dependencies changed run in
\* order on the state of that render; their state updates are applied
\* together, and the second effect runs again on the render that follows.
WithProps(isOpen, doc, hasId, isPDF) ==
    LET m0 == [modal EXCEPT !.isOpen = isOpen, !.doc = doc, !.hasId = hasId,
                            !.isPDF = isPDF]
        openChanged == isOpen # modal.isOpen
        pdfChanged == isPDF # modal.isPDF
        idChanged == doc # modal.doc \/ hasId # modal.hasId
        urlChanged == doc # modal.doc
        reset == isOpen /\ (openChanged \/ pdfChanged)
        n0 == IF reset
              THEN [net EXCEPT !.issued = 0, !.switched = FALSE,
                               !.previewFailed = FALSE, !.textFailed = FALSE,
                               !.refetched = FALSE]
              ELSE net
        s1 == IF openChanged \/ idChanged
              THEN TextEffect([m |-> m0, n |-> n0])
              ELSE [m |-> m0, n |-> n0]
        m2 == IF reset THEN ResetOnOpen(s1.m) ELSE s1.m
        third == isOpen /\ (openChanged \/ urlChanged \/ pdfChanged)
        m3 == IF third /\ ~isPDF THEN [m2 EXCEPT !.loading = FALSE] ELSE m2
        n3 == IF third /\ isPDF
              THEN [s1.n EXCEPT !.previews[doc] = @ + 1]
              ELSE s1.n
    IN  TextEffect([m |-> m3, n |-> n3])

\* The parent opens the modal for a document.
Open ==
    /\ ~modal.isOpen
    /\ \E doc \in 1..ViewDocs, hasId \in BOOLEAN, isPDF \in BOOLEAN :
         /\ isPDF => net.previews[doc] < MaxPreviews
         /\ LET s == WithProps(TRUE, doc, hasId, isPDF)
            IN  modal' = s.m /\ net' = s.n
    /\ UNCHANGED <<ing, calls, files, rows, del, qry, qcalls, getResp, dec>>

\* onClose: the parent passes isOpen = false; the state stays as it is.
Close ==
    /\ modal.isOpen
    /\ LET s == WithProps(FALSE, modal.doc, modal.hasId, modal.isPDF)
       IN  modal' = s.m /\ net' = s.n
    /\ UNCHANGED <<ing, calls, files, rows, del, qry, qcalls, getResp, dec>>

\* The parent passes another document while the modal is open.
ChangeDocument ==
    /\ modal.isOpen
    /\ \E doc \in 1..ViewDocs, hasId \in BOOLEAN, isPDF \in BOOLEAN :
         /\ <<doc, hasId, isPDF>> # <<modal.doc, modal.hasId, modal.isPDF>>
         /\ (isPDF /\ (doc # modal.doc \/ ~modal.isPDF)) =>
                net.previews[doc] < MaxPreviews
         /\ LET s == WithProps(TRUE, doc, hasId, isPDF)
            IN  modal' = s.m /\ net' = s.n
    /\ UNCHANGED <<ing, calls, files, rows, del, qry, qcalls, getResp, dec>>

\* A tab button: setActiveTab(tab).
ClickTab ==
    /\ modal.isOpen /\ modal.isPDF
    /\ \E tab \in {"preview", "content"} :
         /\ tab # modal.activeTab
         /\ LET s == TextEffect([m |-> [modal EXCEPT !.activeTab = tab], n |-> net])
            IN  modal' = s.m /\ net' = s.n
    /\ UNCHANGED <<ing, calls, files, rows, del, qry, qcalls, getResp, dec>>

\* The button shown with the preview error when a documentId was passed.
SwitchOffered(m) ==
    /\ m.isOpen /\ m.isPDF
    /\ m.activeTab = "preview"
    /\ m.error # Nothing
    /\ m.hasId

\* 'View Extracted Text Instead': setActiveTab('content').
ClickViewText ==
    /\ SwitchOffered(modal)
    /\ LET s == TextEffect([m |-> [modal EXCEPT !.activeTab = "content"],
                            n |-> [net EXCEPT !.switched = TRUE]])
       IN  modal' = s.m /\ net' = s.n
    /\ UNCHANGED <<ing, calls, files, rows, del, qry, qcalls, getResp, dec>>

\* The state after the fetch of fileUrl v settled: a JSON body, a non-OK
\* status and a network error are thrown and caught (setError with a
\* non-empty message), anything else is setLoading(false) alone.
AfterPreview(m, v, ok) ==
    IF ok THEN [m EXCEPT !.loading = FALSE]
    ELSE [m EXCEPT !.error = v, !.loading = FALSE]

PreviewDone ==
    /\ \E v \in 1..ViewDocs, ok \in BOOLEAN :
         /\ net.previews[v] > 0
         /\ modal' = AfterPreview(modal, v, ok)
         /\ net' = [net EXCEPT !.previews[v] = @ - 1,
                               !.previewFailed = @ \/ ~ok]
    /\ UNCHANGED <<ing, calls, files, rows, del, qry, qcalls, getResp, dec>>

\* onError of the iframe: setError('Failed to load PDF').
IframeError ==
    /\ modal.isOpen /\ modal.isPDF
    /\ modal.activeTab = "preview"
    /\ modal.error = Nothing /\ ~modal.loading
    /\ modal' = [modal EXCEPT !.error = modal.doc]
    /\ UNCHANGED <<ing, calls, files, rows, del, qry, qcalls, getResp, dec, net>>

\* The state after the text fetch of document v settled: data.error or a
\* throw set textError (a non-empty message), else text is set (fullText or
\* 'No text content available'); finally textLoading is cleared.
AfterText(m, v, ok) ==
    IF ok THEN [m EXCEPT !.text = v, !.textLoading = FALSE]
    ELSE [m EXCEPT !.textError = v, !.textLoading = FALSE]

TextDone ==
    /\ net.textFetch # Nothing
    /\ \E ok \in BOOLEAN :
         LET s == TextEffect([m |-> AfterText(modal, net.textFetch, ok),
                              n |-> [net EXCEPT !.textFetch = Nothing,
                                                !.textFailed = @ \/ ~ok]])
         IN  modal' = s.m /\ net' = s.n
    /\ UNCHANGED <<ing, calls, files, rows, del, qry, qcalls, getResp, dec>>

\* -------------------------------------------------------- specifications
Init ==
    /\ ing = [d \in DocIds |-> IdleIng]
    /\ calls = [d \in DocIds |-> <<>>]
    /\ files = {}
    /\ rows = {}
    /\ del = IdleDel
    /\ qry = IdleQry
    /\ qcalls = <<>>
    /\ getResp = NoResp
    /\ dec = IdleDec
    /\ modal = ClosedModal
    /\ net = IdleNet

Ingest(d, counts) ==
    /\ \/ Post(d)
       \/ ExtractAndSplit(d, counts)
       \/ Embed(d)
       \/ Insert(d)
    /\ UNCHANGED <<dec, modal, net>>

Delete ==
    /\ \/ DeleteRequest
       \/ DeleteSelect
       \/ DeleteRemove
       \/ DeleteRows
    /\ UNCHANGED <<dec, modal, net>>

Query ==
    /\ \/ QueryPost
       \/ QueryEmbed
       \/ QuerySearch
       \/ QueryGenerate
    /\ UNCHANGED <<dec, modal, net>>

\* Concurrent ingestions.
Next == \E d \in DocIds : Ingest(d, 1..MaxChunks)

Spec == Init /\ [][Next]_vars

\* Ingestions and DELETE requests, concurrently.
NextDelete ==
    \/ \E d \in 1..DelDocs : Ingest(d, {MaxChunks})
    \/ Delete

SpecDelete == Init /\ [][NextDelete]_vars

\* One ingestion of a long document, read back through the document endpoint.
\* The table as the read requests may find it: empty, or holding the two
\* chunks of a document ingested earlier and a row written without document_id.
OlderId == MaxDocs + 1

OlderRows ==
    { [document_id |-> OlderId, chunk_index |-> i, total_chunks |-> 2,
       file_path |-> FilePath(OlderId, "txt"), upload_date |-> 0,
       content |-> Chunk(OlderId, i)] : i \in {0, 1} }

UnownedRow ==
    [document_id |-> NoDocumentId, chunk_index |-> 0, total_chunks |-> 0,
     file_path |-> NoPath, upload_date |-> 0, content |-> Chunk(NoDocumentId, 0)]

InitRead ==
    /\ ing = [d \in DocIds |-> IdleIng]
    /\ calls = [d \in DocIds |-> <<>>]
    /\ files = {}
    /\ rows \in { {}, OlderRows \cup {UnownedRow} }
    /\ del = IdleDel
    /\ qry = IdleQry
    /\ qcalls = <<>>
    /\ getResp = NoResp
    /\ dec = IdleDec
    /\ modal = ClosedModal
    /\ net = IdleNet

NextRead ==
    \/ Ingest(1, 1..BigChunks)
    \/ GetDocument
    \/ GetList
    \/ GetFile

SpecRead == InitRead /\ [][NextRead]_vars

\* Two concurrent ingestions whose external calls (parser, embedding, insert)
\* each eventually return or fail: a started request keeps taking steps.
Proceed(d, counts) ==
    /\ \/ ExtractAndSplit(d, counts)
       \/ Embed(d)
       \/ Insert(d)
    /\ UNCHANGED <<dec, modal, net>>

NextLive ==
    \/ Ingest(1, 1..MaxChunks)
    \/ Ingest(2, 1..MaxChunks)

SpecLive ==
    /\ Init
    /\ [][NextLive]_vars
    /\ \A d \in {1, 2} : WF_vars(Proceed(d, 1..MaxChunks))

\* The decoding of one text run of a PDF, for every run of the sample.
InitDecode ==
    /\ ing = [d \in DocIds |-> IdleIng]
    /\ calls = [d \in DocIds |-> <<>>]
    /\ files = {}
    /\ rows = {}
    /\ del = IdleDel
    /\ qry = IdleQry
    /\ qcalls = <<>>
    /\ getResp = NoResp
    /\ dec \in { [IdleDec EXCEPT !.pc = "run", !.run = s] : s \in Runs }
    /\ modal = ClosedModal
    /\ net = IdleNet

NextDecode == DecodeRun

SpecDecode == InitDecode /\ [][NextDecode]_vars

\* The viewer modal: the parent's prop changes, the user's clicks and the
\* completions of the fetches, in any order.
NextModal ==
    \/ Open
    \/ Close
    \/ ChangeDocument
    \/ ClickTab
    \/ ClickViewText
    \/ PreviewDone
    \/ IframeError
    \/ TextDone

SpecModal == Init /\ [][NextModal]_vars

\* The query endpoint against a store one ingestion fills and DELETE empties.
NextQuery ==
    \/ Ingest(1, 1..MaxChunks)
    \/ Delete
    \/ Query

SpecQuery == Init /\ [][NextQuery]_vars

\* ------------------------------------------------------------ properties
LastCall(d) == calls[d][Len(calls[d])]
StoredIndices(d) == { r.chunk_index : r \in RowsOf(d) }

\* C1 (durable prefix). With no DELETE request served: once the insert of
\* chunk i has failed, it is the last call the ingestion ever makes (no chunk
\* is embedded or inserted after it, and none with an index above i at any
\* time), the response is a failure, and exactly chunks 0..i-1 are stored.
C1_DurablePrefix ==
    \A d \in DocIds : \A k \in 1..Len(calls[d]) :
        (calls[d][k][1] = "insert" /\ calls[d][k][3] = "error") =>
            LET i == calls[d][k][2]
            IN  /\ k = Len(calls[d])
                /\ ing[d].pc = "done"
                /\ ing[d].status = 500
                /\ ~ing[d].success
                /\ StoredIndices(d) = 0..(i - 1)
                /\ \A j \in 1..Len(calls[d]) :
                       calls[d][j][1] \in {"embed", "insert"} => calls[d][j][2] <= i

C1_Witness ==
    \E d \in DocIds :
        /\ Len(calls[d]) > 0
        /\ LastCall(d) = <<"insert", 1, "error">>
        /\ StoredIndices(d) = {0}

\* C2. Once the upload has failed it is the only call the ingestion ever
\* makes (no extraction, chunking, embedding or insert), the response is a
\* failure with status 500, and no chunk row of that ingestion exists.
C2_UploadFailureStops ==
    \A d \in DocIds : \A k \in 1..Len(calls[d]) :
        calls[d][k] = <<"upload", 0, "error">> =>
            /\ Len(calls[d]) = 1
            /\ ing[d].pc = "done"
            /\ ing[d].status = 500
            /\ ~ing[d].success
            /\ RowsOf(d) = {}
            /\ FilePath(d, ing[d].ext) \notin files

C2_Witness ==
    \E d, e \in DocIds :
        /\ calls[d] = << <<"upload", 0, "error">> >>
        /\ ing[d].pc = "done"
        /\ RowsOf(e) # {}

\* C3. For each supported format, once the extractor has returned an empty
\* or whitespace-only text, that is the last call of the ingestion (neither
\* the splitter nor the embedding service is called), the ingestion has
\* failed with EmptyContent, and no chunk row of the document is stored.
C3_EmptyContentStops ==
    \A d \in DocIds : \A k \in 1..Len(calls[d]) :
        (calls[d][k][1] = "extract" /\ calls[d][k][3] \in {"empty", "blank"}) =>
            /\ ing[d].ext \in SupportedExts
            /\ k = Len(calls[d])
            /\ ing[d].pc = "done"
            /\ ing[d].error = "EmptyContent"
            /\ ~ing[d].success
            /\ RowsOf(d) = {}

C3_Witness ==
    \E d, e \in DocIds :
        /\ ing[d].ext = "pdf" /\ ing[d].error = "EmptyContent"
        /\ ing[e].ext = "txt" /\ ing[e].error = "EmptyContent"
        /\ Len(calls[e]) > 0
        /\ LastCall(e) = <<"extract", 0, "blank">>

\* C4. Every failed ingestion answers with the status of its failure class:
\* 400 for an unsupported extension and for empty content, 500 for a failed
\* upload, a failed embedding call and a failed insert.
C4_StatusByFailureClass ==
    \A d \in DocIds :
        (ing[d].pc = "done" /\ Len(calls[d]) > 0) =>
            /\ LastCall(d)[3] \in {"unsupported", "empty", "blank"}
                   => ing[d].status = 400
            /\ (LastCall(d)[1] \in {"upload", "embed", "insert"}
                   /\ LastCall(d)[3] = "error") => ing[d].status = 500

\* C5. Once a DELETE of an id has answered success, with no ingestion of
\* that id in flight, no chunk row of the id is left: get-by-id answers not
\* found and no document list contains the id. A DELETE whose delete statement
\* succeeded answers success whether or not any row or file was found, so a
\* second DELETE and a DELETE of an unknown id are no errors.
C5_DeleteRemovesChunks ==
    (del.pc = "done" /\ del.id # NoId) =>
        /\ del.calls[Len(del.calls)] = <<"delete", "ok">> => del.status = 200
        /\ (del.status = 200 /\ del.quiet) =>
               /\ RowsOf(del.id) = {}
               /\ GetByIdResponse(del.id, TRUE).status = 404
               /\ \A resp \in ListResponses(TRUE) : del.id \notin ListedIds(resp)

\* A second DELETE of a fully ingested document: nothing is found, success.
C5_Witness ==
    /\ del.pc = "done"
    /\ del.status = 200
    /\ del.quiet
    /\ del.id \in DocIds
    /\ ing[del.id].success
    /\ del.calls = << <<"select", "none">>, <<"delete", "ok">> >>

\* C6. Once a DELETE of the id of an uploaded file has answered success (no
\* ingestion of the id in flight, every store call of the request succeeded),
\* neither the file nor any chunk row of the id is left.
C6_DeleteRemovesFileAndChunks ==
    ( /\ del.pc = "done"
      /\ del.status = 200
      /\ del.quiet
      /\ del.id \in DocIds
      /\ \A k \in 1..Len(del.calls) : del.calls[k][2] # "error"
      /\ Len(calls[del.id]) > 0
      /\ calls[del.id][1] = <<"upload", 0, "ok">> ) =>
        /\ FilePath(del.id, ing[del.id].ext) \notin files
        /\ RowsOf(del.id) = {}

\* C7. Get-by-id returns the chunks in numeric index order: the k-th piece
\* of fullText is the content of chunk k-1.
C7_FullTextInIndexOrder ==
    (getResp.kind = "doc" /\ getResp.status = 200) =>
        \A k \in 1..Len(getResp.fullText) :
            getResp.fullText[k] = Chunk(getResp.id, k - 1)

\* C8. An empty or whitespace-only query is rejected before any call to the
\* embedding service, the vector search or the generation service.
C8_BlankQueryRejected ==
    (qry.pc # "idle" /\ Trim(qry.query) = <<>>) =>
        /\ qcalls = <<>>
        /\ qry.pc = "done" => qry.error = "InvalidQuery"

\* C9. A search of a store without chunk rows returns the empty list and is
\* no error: the context is empty, the generation service is the next call,
\* and when it succeeds the response is an answer with sources = [].
C9_EmptyStoreIsNoError ==
    \A k \in 1..Len(qcalls) :
        qcalls[k] = <<"search", "ok, store empty">> =>
            /\ qry.results = <<>>
            /\ qry.context = <<>>
            /\ IF k = Len(qcalls)
               THEN qry.pc = "generate"
               ELSE /\ qcalls[k + 1][1] = "generate"
                    /\ qcalls[k + 1][2] = "ok" =>
                           /\ qry.pc = "done"
                           /\ qry.status = 200
                           /\ qry.error = "none"
                           /\ qry.answered
                           /\ qry.sources = <<>>

C9_Witness ==
    /\ qry.pc = "done"
    /\ qry.status = 200
    /\ qry.answered
    /\ qry.sources = <<>>
    /\ qcalls = << <<"embed", "ok">>, <<"search", "ok, store empty">>,
                   <<"generate", "ok">> >>

\* C10. Once extraction has thrown (parser failure or unsupported extension),
\* the ingestion has failed, the uploaded file is still in the bucket under
\* the key of its documentId, and no chunk row of that documentId exists.
C10_UploadNotRolledBack ==
    \A d \in DocIds : \A k \in 1..Len(calls[d]) :
        (calls[d][k][1] = "extract" /\ calls[d][k][3] \in {"error", "unsupported"}) =>
            /\ calls[d][1] = <<"upload", 0, "ok">>
            /\ ing[d].pc = "done"
            /\ ~ing[d].success
            /\ FilePath(d, ing[d].ext) \in files
            /\ RowsOf(d) = {}

\* The failed ingestion's file is in the bucket even after a DELETE of its id.
C10_Witness ==
    \E d \in DocIds :
        /\ Len(calls[d]) = 2
        /\ LastCall(d) = <<"extract", 0, "unsupported">>
        /\ FilePath(d, "bin") \in files
        /\ del.pc = "done" /\ del.id = d /\ del.status = 200

\* C11. After an ingestion whose upload succeeded and whose indexing failed,
\* the file retrieval of the document endpoint returns the raw file of that
\* documentId (the store calls of the retrieval succeeding).
C11_RawFileStillFetchable ==
    \A d \in DocIds :
        ( /\ ing[d].pc = "done"
          /\ ~ing[d].success
          /\ Len(calls[d]) > 0
          /\ calls[d][1] = <<"upload", 0, "ok">> ) =>
            GetFileResponse(d, TRUE, TRUE).status = 200

\* The calls of ingestion d to operation op that returned successfully.
OkCalls(d, op) ==
    { k \in 1..Len(calls[d]) : calls[d][k][1] = op /\ calls[d][k][3] = "ok" }

\* C12 (no partial success). With no DELETE request served: a success response
\* is given only by a finished request with status 200 whose every chunk
\* 0..n-1 was embedded and inserted successfully and is stored, n being the
\* chunk count it reports; a finished request with some produced chunk not
\* stored answers with a failure status and no success flag.
C12_NoPartialSuccess ==
    \A d \in DocIds :
        /\ ing[d].success =>
              /\ ing[d].pc = "done"
              /\ ing[d].status = 200
              /\ ing[d].chunks > 0
              /\ \A i \in 0..(ing[d].chunks - 1) :
                    /\ \E k \in OkCalls(d, "embed") : calls[d][k][2] = i
                    /\ \E k \in OkCalls(d, "insert") : calls[d][k][2] = i
              /\ Cardinality(OkCalls(d, "insert")) = ing[d].chunks
              /\ StoredIndices(d) = 0..(ing[d].chunks - 1)
        /\ ( /\ ing[d].pc = "done"
             /\ StoredIndices(d) # 0..(ing[d].chunks - 1) ) =>
              /\ ~ing[d].success
              /\ ing[d].status = 500

C12_Witness ==
    \E d, e \in DocIds :
        /\ ing[d].success /\ ing[d].chunks = MaxChunks
        /\ ing[e].pc = "done" /\ ing[e].chunks = MaxChunks
        /\ StoredIndices(e) = 0..(MaxChunks - 2)

\* C13 (sequential per-chunk work). In the call sequence of one ingestion the
\* embedding of chunk 0 directly follows the split and the embedding of chunk
\* i+1 directly follows the successful insert of chunk i; the insert of chunk
\* i directly follows the successful embedding of chunk i; no chunk is
\* embedded or inserted twice. A call is issued only after the one before it
\* has returned, so at most one is outstanding.
C13_SequentialChunks ==
    \A d \in DocIds : \A k \in 1..Len(calls[d]) :
        LET c == calls[d][k]
        IN  /\ c[1] = "embed" =>
                 /\ k > 1
                 /\ calls[d][k - 1] = IF c[2] = 0 THEN <<"split", 0, "ok">>
                                      ELSE <<"insert", c[2] - 1, "ok">>
            /\ c[1] = "insert" =>
                 /\ k > 1
                 /\ calls[d][k - 1] = <<"embed", c[2], "ok">>
            /\ c[1] \in {"embed", "insert"} =>
                 \A j \in 1..Len(calls[d]) :
                    (calls[d][j][1] = c[1] /\ calls[d][j][2] = c[2]) => j = k

C13_Witness ==
    \E d \in DocIds : \E k \in 1..Len(calls[d]) :
        /\ k > 3
        /\ calls[d][k][1] = "insert" /\ calls[d][k][2] = 1
        /\ calls[d][k - 1] = <<"embed", 1, "ok">>
        /\ calls[d][k - 2] = <<"insert", 0, "ok">>
        /\ calls[d][k - 3] = <<"embed", 0, "ok">>

\* C14 (row invariants). Under any interleaving of ingestions, every stored
\* row carries the id of one ingestion that was started, the content of the
\* chunk at position chunk_index of that document, 0 <= chunk_index <
\* total_chunks, and the total_chunks, file_path and upload_date of its
\* document; two rows with the same (document_id, chunk_index) are the same
\* row, rows of one document agree on total_chunks, file_path and
\* upload_date, and rows of different documents share no file_path.
C14_RowInvariants ==
    /\ \A r \in rows :
          LET d == r.document_id
          IN  /\ d \in DocIds
              /\ ing[d].pc # "idle"
              /\ r.chunk_index >= 0
              /\ r.chunk_index < r.total_chunks
              /\ r.total_chunks = ing[d].chunks
              /\ r.content = Chunk(d, r.chunk_index)
              /\ r.file_path = FilePath(d, ing[d].ext)
              /\ r.upload_date = UploadDate(d)
    /\ \A r1, r2 \in rows :
          /\ (r1.document_id = r2.document_id /\ r1.chunk_index = r2.chunk_index)
                => r1 = r2
          /\ r1.document_id = r2.document_id =>
                /\ r1.total_chunks = r2.total_chunks
                /\ r1.file_path = r2.file_path
                /\ r1.upload_date = r2.upload_date
          /\ r1.document_id # r2.document_id => r1.file_path # r2.file_path

C14_Witness ==
    \E d, e \in DocIds :
        /\ d # e
        /\ StoredIndices(d) = 0..(MaxChunks - 1)
        /\ StoredIndices(e) = 0..(MaxChunks - 1)

\* C15 (list deduplication). Whatever the table holds and in whatever order
\* it is scanned, a successful list response has exactly one entry per
\* distinct document_id that has a stored row, however many rows the id has;
\* each entry is the summary of a row of its id (the first one seen), and
\* rows without a document_id contribute no entry.
C15_ListOnePerDocument ==
    \A resp \in ListResponses(TRUE) :
        /\ resp.status = 200
        /\ ListedIds(resp) = { r.document_id : r \in rows } \ {NoDocumentId}
        /\ Cardinality(resp.documents) = Cardinality(ListedIds(resp))
        /\ \A s \in resp.documents : \E r \in RowsOf(s.id) : s = Summary(r)

C15_Witness ==
    /\ getResp.kind = "list"
    /\ getResp \in ListResponses(TRUE)
    /\ UnownedRow \in rows
    /\ Cardinality(RowsOf(1)) >= 2
    /\ ListedIds(getResp) = {1, OlderId}

\* C16 (retrieval pipeline). The calls of one query request are a prefix of
\* embed, search, generate, each made at most once; a call that failed is the
\* last one and the request ends with status 500 and no answer; the search is
\* called with match_count 5 and returns at most 5 results; an answer is
\* returned only after all three calls succeeded, with status 200 and with
\* sources being the list the search returned.
C16_RetrievalPipeline ==
    /\ Len(qcalls) <= 3
    /\ \A k \in 1..Len(qcalls) :
          /\ qcalls[k][1] = <<"embed", "search", "generate">>[k]
          /\ qcalls[k][2] = "error" =>
                /\ k = Len(qcalls)
                /\ qry.pc = "done"
                /\ qry.status = 500
                /\ ~qry.answered
          /\ qcalls[k][1] = "search" =>
                /\ qry.match_count = 5
                /\ Len(qry.results) <= 5
    /\ qry.answered <=> qry.status = 200
    /\ qry.answered =>
          /\ qry.pc = "done"
          /\ Len(qcalls) = 3
          /\ \A k \in 1..3 : qcalls[k][2] # "error"
          /\ qry.sources = qry.results

C16_Witness ==
    /\ qry.answered
    /\ Len(qry.sources) = MaxChunks
    /\ Len(qcalls) = 3

\* The ingestion states that are not terminal: Received (the request that
\* arrives next, ids being given in arrival order), before extraction and
\* chunking, and Embedding(i) before the embedding and before the insert of
\* chunk i.
NonTerminal(d) ==
    \/ ing[d].pc \in {"extract", "embed", "insert"}
    \/ ing[d].pc = "idle" /\ \A e \in DocIds : e < d => ing[e].pc # "idle"

\* Ingestion d can fail in its next step.
CanFail(d) ==
    ENABLED ( /\ Ingest(d, 1..MaxChunks)
              /\ ing'[d].pc = "done"
              /\ ~ing'[d].success
              /\ ing'[d].status \in {400, 500} )

\* C17 (termination). If every external call eventually returns or fails, an
\* ingestion whose upload was accepted eventually is finished, as Complete
\* (success, 200) or Failed (400 or 500); a finished ingestion never changes
\* again and makes no further call, a response status exists exactly for the
\* finished ones (one response per request), and in every non-terminal state
\* a failure of the ingestion is possible.
C17_IngestionTerminates ==
    /\ \A d \in DocIds :
          (ing[d].pc \in {"extract", "embed", "insert"}) ~> (ing[d].pc = "done")
    /\ [][\A d \in DocIds :
             ing[d].pc = "done" => (ing'[d] = ing[d] /\ calls'[d] = calls[d])]_vars
    /\ [](\A d \in DocIds :
             /\ ing[d].pc = "done" <=> ing[d].status # 0
             /\ ing[d].pc = "done" =>
                   \/ ing[d].success /\ ing[d].status = 200 /\ ing[d].error = "none"
                   \/ ~ing[d].success /\ ing[d].status \in {400, 500}
                                      /\ ing[d].error # "none"
             /\ NonTerminal(d) => CanFail(d))

C17_Witness ==
    \E d, e \in DocIds :
        /\ ing[d].pc = "done" /\ ing[d].success /\ ing[d].i = MaxChunks
        /\ ing[e].pc = "done" /\ ing[e].error = "EmbeddingServiceError"
        /\ ing[e].i = MaxChunks - 1

\* C18 (DELETE against an in-flight ingestion). Under any interleaving of a
\* DELETE with an ingestion of the same id: once the DELETE has answered
\* success no chunk row of the id is in the store, and in every state the
\* stored chunk indices of a document are 0..j-1 for some j.
C18_ChunkNeverOutlivesDocument ==
    /\ (del.pc = "done" /\ del.status = 200 /\ del.id \in DocIds) =>
           RowsOf(del.id) = {}
    /\ \A d \in DocIds :
           \E j \in 0..ing[d].chunks : StoredIndices(d) = 0..(j - 1)

\* The characters of s with every "%" left out.
RECURSIVE WithoutPercent(_)
WithoutPercent(s) ==
    IF s = <<>> THEN <<>>
    ELSE IF Head(s) = "%" THEN WithoutPercent(Tail(s))
    ELSE <<Head(s)>> \o WithoutPercent(Tail(s))

\* C19 (decoding never throws). For every text run, safeDecodeURIComponent
\* returns and the PDF extraction is not rejected: the result is the decoded
\* string when the first decode succeeds; otherwise it is the decode of the
\* string in which every '%' was escaped, which is the run itself, character
\* by character; the raw string is what is left when that decode throws too.
C19_DecodeNeverThrows ==
    dec.pc = "done" =>
        LET first == DecodeURIComponent(dec.run)
            escaped == EscapePercent(dec.run)
            second == DecodeURIComponent(escaped)
        IN  /\ ~dec.thrown
            /\ ~dec.rejected
            /\ dec.fullText = dec.value \o <<" ">>
            /\ ~first.thrown => (dec.tier = 1 /\ dec.value = first.value)
            /\ first.thrown =>
                  /\ dec.tier \in {2, 3}
                  /\ dec.value = dec.run
                  /\ dec.tier = 2 => (~second.thrown /\ dec.value = second.value)
                  /\ dec.tier = 3 => second.thrown
                  /\ Len(escaped) - Len(WithoutPercent(escaped))
                        = Len(dec.run) - Len(WithoutPercent(dec.run))
                  /\ Len(escaped)
                        = Len(dec.run) + 2 * (Len(dec.run) - Len(WithoutPercent(dec.run)))
                  /\ \A k \in 1..Len(escaped) :
                        escaped[k] = "%" =>
                           /\ k + 2 <= Len(escaped)
                           /\ escaped[k + 1] = "2"
                           /\ escaped[k + 2] = "5"

C19_Witness ==
    /\ dec.pc = "done"
    /\ dec.run = <<"%", "%", "2", "5">>
    /\ dec.tier = 2
    /\ dec.value = dec.run

\* C20 (preview fallback). In the modal open for a PDF with a documentId:
\* once a preview fetch has failed the modal is not loading, an error is set
\* and, on the preview tab, the switch to the extracted text is offered; once
\* the switch was taken, exactly one fetch of the document text has been
\* issued since the modal was opened; and after a text fetch has failed no
\* further text fetch is issued until the modal is opened again.
C20_PreviewFallback ==
    (modal.isOpen /\ modal.isPDF /\ modal.hasId) =>
        /\ net.previewFailed =>
              /\ ~modal.loading
              /\ modal.error # Nothing
              /\ modal.activeTab = "preview" => SwitchOffered(modal)
        /\ net.switched => net.issued = 1
        /\ ~net.refetched

\* What the open modal renders in the content pane and in the preview pane.
ShowsContent(m) ==
    /\ m.isOpen
    /\ (~m.isPDF \/ m.activeTab = "content")
    /\ ~m.textLoading

ShowsText(m) == ShowsContent(m) /\ m.textError = Nothing /\ m.text # Nothing

ShowsTextError(m) == ShowsContent(m) /\ m.textError # Nothing

ShowsPreviewError(m) ==
    /\ m.isOpen /\ m.isPDF
    /\ m.activeTab = "preview"
    /\ m.error # Nothing

\* C21 (current document only). Under any interleaving of open, close, reopen
\* with another document, tab switches and fetch completions: an extracted
\* text or a text error the modal displays came from a fetch issued for the
\* documentId now passed to it, and a preview error it displays came from
\* the current fileUrl.
C21_ShowsCurrentDocumentOnly ==
    /\ ShowsText(modal) => modal.text = modal.doc
    /\ ShowsTextError(modal) => modal.textError = modal.doc
    /\ ShowsPreviewError(modal) => modal.error = modal.doc

\* C22 (total_chunks agreement). In every state, for every document id with
\* at least one stored chunk row, the total_chunks the document list reports
\* for it equals the total_chunks get-by-id reports for it, and both equal
\* the number of chunks its ingestion produced.
C22_TotalChunksAgree ==
    \A id \in DocIds :
        RowsOf(id) # {} =>
            \A resp \in ListResponses(TRUE) : \A e \in resp.documents :
                e.id = id =>
                    /\ e.total_chunks = GetByIdResponse(id, TRUE).total_chunks
                    /\ e.total_chunks = ing[id].chunks

====
